---- MODULE Spec2Model ----
(***************************************************************************)
(* Model of statusline.py: one status-line invocation (main) reads a JSON  *)
(* document on stdin, resolves the session and weekly quota readings       *)
(* through two cache files, the keychain and the usage endpoint            *)
(* (get_usage_data), and prints the line.  Invocations follow each other   *)
(* through the shared cache files and the wall clock.                      *)
(***************************************************************************)
EXTENDS Integers, Sequences, FiniteSets, TLC

VARIABLES now, cache, inv, prev, calc

vars == <<now, cache, inv, prev, calc>>

(***************************************************************************)
(* Program constants and bounds.                                           *)
(***************************************************************************)
SESSION_TTL == 60
WEEKLY_TTL == 300
\* subprocess.run(..., timeout=5) of the credential lookup and timeout=10 of
\* the request: the longest each call lets the invocation wait.
TOKEN_TIMEOUT == 5
FETCH_TIMEOUT == 10

\* The clock is observed at time 0 and, for each of the two TTLs, at the
\* instant at which a file written at time 0 reaches that age, Near seconds
\* before it and Near seconds after it.
Near == 1
Around(t) == {t - Near, t, t + Near}
Instants == {0} \cup Around(SESSION_TTL) \cup Around(WEEKLY_TTL)

Procs == {"a"}
Keys == {"session", "weekly"}

\* SESSION_CACHE / WEEKLY_CACHE are read with SESSION_TTL / WEEKLY_TTL.
TTL(k) == IF k = "session" THEN SESSION_TTL ELSE WEEKLY_TTL

(***************************************************************************)
(* Python values.  A value held in session_data / weekly_data or in a      *)
(* cache file is None, a dict {"pct", "resets_at"} or some other JSON      *)
(* value (a list, a number, a string) on which .get does not exist.        *)
(***************************************************************************)
PyNone == [kind |-> "none", pct |-> 0, resets_at |-> "null"]
NonDict == [kind |-> "nondict", pct |-> 0, resets_at |-> "null"]
Reading(p, r) == [kind |-> "dict", pct |-> p, resets_at |-> r]
\* resets_at is opaque to the resolver: JSON null ("null") or an ISO string.

(***************************************************************************)
(* Exceptions: the classes the code raises or catches, and subclassing.    *)
(***************************************************************************)
NoExc == "none"
Parents(e) ==
    CASE e = "JSONDecodeError" -> {"JSONDecodeError", "ValueError"}
      [] e = "UnicodeDecodeError" -> {"UnicodeDecodeError", "ValueError"}
      [] e = "FileNotFoundError" -> {"FileNotFoundError", "OSError"}
      [] e = "PermissionError" -> {"PermissionError", "OSError"}
      [] OTHER -> {e}
\* "except (A, B)": the raised exception is an instance of a listed class.
Caught(e, classes) == e # NoExc /\ (Parents(e) \cap classes) # {}

(***************************************************************************)
(* Cache files: existence, mtime, text and length in bytes.  The text is   *)
(* a JSON document (holding val), bytes that do not parse, or bytes that   *)
(* are not UTF-8.                                                          *)
(***************************************************************************)
\* The number of characters of str(n).
RECURSIVE Digits(_)
Digits(n) ==
    IF n < 0 THEN 1 + Digits(-n)
    ELSE IF n < 10 THEN 1 ELSE 1 + Digits(n \div 10)

\* The length of json.dumps(v): {"pct": N, "resets_at": R} with R null or a
\* quoted 20-character timestamp; null; a short list such as [1].
TextLen(v) ==
    CASE v.kind = "dict" ->
           24 + Digits(v.pct) + (IF v.resets_at = "null" THEN 4 ELSE 22)
      [] v.kind = "none" -> 4
      [] OTHER -> 3

NoFile ==
    [exists |-> FALSE, mtime |-> 0, text |-> "garbage", val |-> PyNone, len |-> 0]
JsonFile(t, v) ==
    [exists |-> TRUE, mtime |-> t, text |-> "json", val |-> v, len |-> TextLen(v)]
RawFile(t, x) ==
    [exists |-> TRUE, mtime |-> t, text |-> x, val |-> PyNone, len |-> 1]
\* The file just after open(cache_file, "w"): it exists and is empty.
Truncated(t) == [RawFile(t, "garbage") EXCEPT !.len = 0]

\* get_cached_usage's staleness test: "time.time() - mtime > ttl" is a miss.
FreshMutGE(t, mtime, ttl) == ~(t - mtime >= ttl)
Fresh(t, mtime, ttl) == ~(t - mtime > ttl)

\* json.load(f) of the file's text: the value, or the exception it raises.
JsonLoad(file) ==
    CASE file.text = "json" -> [exc |-> NoExc, val |-> file.val]
      [] file.text = "garbage" -> [exc |-> "JSONDecodeError", val |-> PyNone]
      [] OTHER -> [exc |-> "UnicodeDecodeError", val |-> PyNone]

\* get_cached_usage(cache_file, ttl) at time t; oserr: stat()/open() raises
\* OSError.  Returns the value, or the exception that escapes the function.
get_cached_usage(file, ttl, t, oserr) ==
    IF ~file.exists THEN [exc |-> NoExc, val |-> PyNone]
    ELSE IF oserr THEN [exc |-> NoExc, val |-> PyNone]
    ELSE IF ~Fresh(t, file.mtime, ttl) THEN [exc |-> NoExc, val |-> PyNone]
    ELSE LET r == JsonLoad(file)
         IN IF Caught(r.exc, {"OSError", "JSONDecodeError"})
            THEN [exc |-> NoExc, val |-> PyNone]
            ELSE r

\* What save_cache's body raises in a cache directory of condition fs:
\* mkdir or open(cache_file, "w") on a directory or file that cannot be
\* written (step "open"), json.dump or the close on a full disk (step
\* "dump").
SaveBody(fs, step) ==
    CASE step = "open" /\ fs = "nowrite" -> "PermissionError"
      [] step = "dump" /\ fs = "full" -> "OSError"
      [] OTHER -> NoExc
\* save_cache's "except OSError: pass": the exception that escapes it.
SaveEscapesMutAll(e) == e
SaveEscapes(e) == IF Caught(e, {"OSError"}) THEN NoExc ELSE e

\* json.dump(data, f): the text written for a {"pct", "resets_at"} dict.
JsonDumpMutBarePct(t, data) == JsonFile(t, [data EXCEPT !.resets_at = "null"])
JsonDump(t, data) == JsonFile(t, data)

\* The file old after a writer whose file object was opened with "w" has
\* written the text of new through it: the bytes go to offset 0 of the
\* file as it is now, and bytes another writer put beyond them stay.  A
\* JSON document followed by more bytes does not parse ("Extra data").
Overwrite(old, new) ==
    IF new.len >= old.len THEN new
    ELSE [new EXCEPT !.text = "garbage", !.val = PyNone, !.len = old.len]

(***************************************************************************)
(* get_claude_token: outcomes of the "security" call and of the parsing    *)
(* of its output.  The value is "None", "" or "tok".                       *)
(***************************************************************************)
CredOutcomes ==
    {"timeout", "notfound", "noexec", "nonzero", "badjson", "nondict",
     "nooauth", "oauthnull", "notoken", "emptytoken", "token"}

\* What lines 95-112 raise or return before the except clause applies.
TokenBody(outcome) ==
    CASE outcome = "timeout" -> [exc |-> "TimeoutExpired", val |-> "None"]
      [] outcome = "notfound" -> [exc |-> "FileNotFoundError", val |-> "None"]
      [] outcome = "noexec" -> [exc |-> "PermissionError", val |-> "None"]
      [] outcome = "nonzero" -> [exc |-> NoExc, val |-> "None"]
      [] outcome = "badjson" -> [exc |-> "JSONDecodeError", val |-> "None"]
      [] outcome = "nondict" -> [exc |-> "AttributeError", val |-> "None"]
      [] outcome = "nooauth" -> [exc |-> NoExc, val |-> "None"]
      [] outcome = "oauthnull" -> [exc |-> "AttributeError", val |-> "None"]
      [] outcome = "notoken" -> [exc |-> NoExc, val |-> "None"]
      [] outcome = "emptytoken" -> [exc |-> NoExc, val |-> ""]
      [] OTHER -> [exc |-> NoExc, val |-> "tok"]

get_claude_token(outcome) ==
    LET r == TokenBody(outcome)
    IN IF Caught(r.exc, {"TimeoutExpired", "JSONDecodeError", "FileNotFoundError"})
       THEN [exc |-> NoExc, val |-> "None"]
       ELSE r

\* "if not token": None and the empty string are falsy.
NotTokenMutNever(tok) == FALSE
NotTokenMutNoneOnly(tok) == tok = "None"
NotToken(tok) == tok \in {"None", ""}

(***************************************************************************)
(* The usage response.  A sub-record (five_hour / seven_day) is absent,    *)
(* a falsy value ({} or null), a truthy value that is no dict, or a dict   *)
(* whose utilization is missing, a number (in tenths of a percent here),   *)
(* a non-numeric string or null.                                           *)
(***************************************************************************)
Sub(kind, ukind, u, r) == [kind |-> kind, ukind |-> ukind, u |-> u, resets_at |-> r]
AbsentSub == Sub("absent", "missing", 0, "null")
EmptySub == Sub("empty", "missing", 0, "null")
NonDictSub == Sub("nondict", "missing", 0, "null")
Rec(u, r) == Sub("rec", "num", u, r)

\* The utilizations used are 99.9, 150.0 and -1.5.
CoreSubs == {AbsentSub, Rec(999, "2026-01-01T00:00:00Z")}
\* Sub-records that make the extraction raise, or that count as absent.
BadSubs ==
    {EmptySub, NonDictSub, Sub("rec", "badstr", 0, "null"),
     Sub("rec", "null", 0, "null")}
OddSubs ==
    BadSubs \cup {Rec(1500, "null"), Rec(-15, "null"),
                  Sub("rec", "missing", 0, "2026-01-01T00:00:00Z")}

UsageDict(f, s) == [kind |-> "dict", five_hour |-> f, seven_day |-> s]
UsageNone == [kind |-> "none", five_hour |-> AbsentSub, seven_day |-> AbsentSub]
\* A falsy JSON body other than null: {}, [], 0, "".
UsageFalsy == [kind |-> "falsy", five_hour |-> AbsentSub, seven_day |-> AbsentSub]
\* A truthy JSON body that is no dict: a non-empty list or string, a number.
UsageNonDict == [kind |-> "nondict", five_hour |-> AbsentSub, seven_day |-> AbsentSub]
\* The endpoint's JSON error object: a dict without five_hour / seven_day.
ErrorBody == UsageDict(AbsentSub, AbsentSub)

\* The bodies a 2xx response may carry.
Bodies ==
    {UsageDict(f, s) : f \in CoreSubs, s \in CoreSubs}
      \cup {UsageDict(f, AbsentSub) : f \in OddSubs}
      \cup {UsageDict(Rec(999, "2026-01-01T00:00:00Z"), s) : s \in BadSubs}
      \cup {UsageNone, UsageFalsy, UsageNonDict}

FetchOutcomes ==
    {"timeout", "notfound", "curlfail", "badbody", "http_error_json",
     "http_error_html", "ok"}
\* The outcomes in which the request did not deliver a usable 2xx body.
FetchFailures == FetchOutcomes \ {"ok"}

\* What lines 120-138 raise or return before the except clause applies:
\* curl runs with -s and without --fail, so an HTTP error status still
\* exits 0 with the response body on stdout.
FetchBody(outcome, body) ==
    CASE outcome = "timeout" -> [exc |-> "TimeoutExpired", val |-> UsageNone]
      [] outcome = "notfound" -> [exc |-> "FileNotFoundError", val |-> UsageNone]
      [] outcome = "curlfail" -> [exc |-> NoExc, val |-> UsageNone]
      [] outcome = "badbody" -> [exc |-> "JSONDecodeError", val |-> UsageNone]
      [] outcome = "http_error_html" -> [exc |-> "JSONDecodeError", val |-> UsageNone]
      [] outcome = "http_error_json" -> [exc |-> NoExc, val |-> ErrorBody]
      [] OTHER -> [exc |-> NoExc, val |-> body]

fetch_usage(outcome, body) ==
    LET r == FetchBody(outcome, body)
    IN IF Caught(r.exc, {"TimeoutExpired", "JSONDecodeError"})
       THEN [exc |-> NoExc, val |-> UsageNone]
       ELSE r

\* "if not usage": None and empty containers are falsy.
NotUsageMutNever(usage) == FALSE
NotUsage(usage) == usage.kind \in {"none", "falsy"}

\* usage.get("five_hour", {}) / usage.get("seven_day", {}).
UsageGet(usage, k) == IF k = "session" THEN usage.five_hour ELSE usage.seven_day
\* "if five_hour:" / "if seven_day:".
TruthyMutAll(sub) == TRUE
Truthy(sub) == sub.kind \in {"nondict", "rec"}

\* int(x) of a number given in tenths: truncation toward zero.
Trunc10MutFloor(v) == v \div 10
Trunc10(v) == IF v >= 0 THEN v \div 10 ELSE -((-v) \div 10)

\* int(float(sub.get("utilization", 0))): the percentage or the exception.
ToPct(sub) ==
    CASE sub.kind = "nondict" -> [exc |-> "AttributeError", val |-> 0]
      [] sub.ukind = "missing" -> [exc |-> NoExc, val |-> 0]
      [] sub.ukind = "num" -> [exc |-> NoExc, val |-> Trunc10(sub.u)]
      [] sub.ukind = "badstr" -> [exc |-> "ValueError", val |-> 0]
      [] OTHER -> [exc |-> "TypeError", val |-> 0]

\* Lines 187-192 / 195-200: the reading held for key k after the extraction,
\* given the value the cache read left in the variable.
ExtractMutKeepCached(cached, sub) ==
    IF Truthy(sub) /\ cached = PyNone
    THEN Reading(ToPct(sub).val, sub.resets_at) ELSE cached
ExtractMutDrop(cached, sub) ==
    IF Truthy(sub) THEN Reading(ToPct(sub).val, sub.resets_at) ELSE PyNone
Extracted(cached, sub) ==
    IF Truthy(sub) THEN Reading(ToPct(sub).val, sub.resets_at) ELSE cached

\* Line 174: both cache reads returned a value.
BothCachedMutNever(s, w) == FALSE
BothCached(s, w) == s # PyNone /\ w # PyNone

(***************************************************************************)
(* main, lines 207-250: parsing stdin and building the first three parts.  *)
(* stdin is text that is no JSON, a JSON value that is no object, an       *)
(* object with a field of the wrong type, or a well-formed document.       *)
(***************************************************************************)
StdinKinds == {"malformed", "nondict", "badfield", "ok"}

\* The condition of the cache directory during one invocation: usable,
\* files that cannot be opened for reading (stat/open raise OSError), a
\* directory or files that cannot be opened for writing, or a full disk
\* (open succeeds and truncates, the write fails).
FsKinds == {"ok", "noread", "nowrite", "full"}

\* json.load(sys.stdin) and the .get calls of lines 215-250.
MainBody(stdin) ==
    CASE stdin = "malformed" -> "JSONDecodeError"
      [] stdin \in {"nondict", "badfield"} -> "AttributeError"
      [] OTHER -> NoExc

\* Where main stands after line 250: returned (the except clause of line
\* 209), ended by an exception, or about to call get_usage_data.
MainHeadMutGoOn(stdin) ==
    IF stdin = "malformed" THEN "read"
    ELSE IF MainBody(stdin) # NoExc THEN "crashed"
    ELSE "read"
MainHead(stdin) ==
    IF stdin = "malformed" /\ Caught(MainBody(stdin), {"JSONDecodeError", "ValueError"})
    THEN "done"
    ELSE IF MainBody(stdin) # NoExc THEN "crashed"
    ELSE "read"

(***************************************************************************)
(* The state of one invocation.  data[k] is session_data / weekly_data;    *)
(* the fields after "exc" record what the invocation did, for the          *)
(* properties below.                                                       *)
(***************************************************************************)
NoData == [k \in Keys |-> PyNone]
NoFiles == [k \in Keys |-> NoFile]
NoTimes == [k \in Keys |-> 0]

IdleInv ==
    [pc |-> "idle", k |-> "session", stdin |-> "ok", fs |-> "ok", data |-> NoData,
     token |-> "None", usage |-> UsageNone, stdout |-> <<>>, exit |-> -1,
     exc |-> NoExc,
     resolved |-> FALSE, reads |-> {}, seen |-> NoFiles, readAt |-> NoTimes,
     cached |-> NoData, credCalls |-> 0,
     fetchCalls |-> 0, fetchOutcome |-> "unset",
     fetchAt |-> 0, saves |-> 0, saveFailed |-> FALSE]

\* calc holds the argument and the result of a function of the program
\* that is examined on its own; it is unused while invocations run.
NoCalc == [fn |-> "none"]

NoPrev == [some |-> FALSE, data |-> NoData, subs |-> {}, fetchAt |-> 0,
           wfail |-> FALSE]

\* An uncaught exception ends the interpreter with exit status 1.
Crash(r, e) == [r EXCEPT !.pc = "crashed", !.exit = 1, !.exc = e]
\* get_usage_data returns (s, w) to line 253.
Return(r, s, w) ==
    [r EXCEPT !.pc = "render", !.resolved = TRUE,
              !.data = [k \in Keys |-> IF k = "session" THEN s ELSE w]]
\* After the session half of lines 186-203 comes the weekly half, then the
\* return of line 203.
Advance(r) ==
    IF r.k = "session" THEN [r EXCEPT !.pc = "extract", !.k = "weekly"]
    ELSE Return(r, r.data["session"], r.data["weekly"])

\* The keys whose sub-record of the response is a record with a number as
\* utilization.
WellFormed(sub) == sub.kind = "rec" /\ sub.ukind = "num"
GoodSubs(usage) == {k \in Keys : WellFormed(UsageGet(usage, k))}
\* The response is a dict whose sub-records are well-formed or absent.
PlainUsage(usage) ==
    /\ usage.kind = "dict"
    /\ \A k \in Keys : WellFormed(UsageGet(usage, k)) \/ UsageGet(usage, k) = AbsentSub
    /\ GoodSubs(usage) # {}

\* What the previous invocation leaves for the comparison of two calls, when
\* it found the cache directory usable, fetched a plain response and saved
\* what it held: the readings it returned, the sub-records the response had,
\* the time of the fetch.  Otherwise, whether a save of it failed.
Summary(r) ==
    IF r.pc = "done" /\ r.resolved /\ r.fetchCalls = 1 /\ PlainUsage(r.usage)
       /\ r.fs = "ok" /\ ~r.saveFailed
    THEN [some |-> TRUE, data |-> r.data, subs |-> GoodSubs(r.usage),
          fetchAt |-> r.fetchAt, wfail |-> FALSE]
    ELSE [NoPrev EXCEPT !.wfail = r.saveFailed]

(***************************************************************************)
(* Initial state: no invocation has run; each cache file is missing or     *)
(* was left at time 0 by an earlier invocation or by something else.       *)
(***************************************************************************)
InitFiles ==
    {NoFile, JsonFile(0, Reading(42, "2026-01-01T00:00:00Z")),
     JsonFile(0, PyNone), JsonFile(0, NonDict),
     RawFile(0, "garbage"), RawFile(0, "badutf8")}

Init ==
    /\ now = 0
    /\ cache \in [Keys -> InitFiles]
    /\ inv = [p \in Procs |-> IdleInv]
    /\ prev = NoPrev
    /\ calc = NoCalc

(***************************************************************************)
(* Actions.                                                                *)
(***************************************************************************)
\* How long an invocation at position pc may let the clock advance: any
\* time passes between invocations, a bounded time while a subprocess runs.
MayWait(pc, d) ==
    \/ pc = "idle"
    \/ pc = "token" /\ d <= TOKEN_TIMEOUT
    \/ pc = "fetch" /\ d <= FETCH_TIMEOUT

\* The clock advances.
Tick ==
    /\ \E t \in Instants :
         /\ t > now
         /\ \A p \in DOMAIN inv : MayWait(inv[p].pc, t - now)
         /\ now' = t
    /\ UNCHANGED <<calc, cache, inv, prev>>

\* main starts: lines 207-250.
Main(p) ==
    /\ inv[p].pc = "idle"
    /\ \E stdin \in StdinKinds, fs \in FsKinds :
         LET r == [IdleInv EXCEPT !.stdin = stdin, !.fs = fs]
             to == MainHead(stdin)
         IN inv' = [inv EXCEPT ![p] =
                CASE to = "done" -> [r EXCEPT !.pc = "done", !.exit = 0]
                  [] to = "crashed" -> Crash(r, MainBody(stdin))
                  [] OTHER -> [r EXCEPT !.pc = "read", !.k = "session"]]
    /\ UNCHANGED <<calc, now, cache, prev>>

\* Lines 170-175: get_cached_usage for the session key, then the weekly key,
\* then the test of line 174.
ReadCache(p) ==
    /\ inv[p].pc = "read"
    /\ LET r == inv[p]
             k == r.k
             oserr == r.fs = "noread"
             got == get_cached_usage(cache[k], TTL(k), now, oserr)
             r1 == [r EXCEPT !.data[k] = got.val, !.cached[k] = got.val,
                             !.reads = @ \cup {k}, !.seen[k] = cache[k],
                             !.readAt[k] = now]
         IN inv' = [inv EXCEPT ![p] =
                 IF got.exc # NoExc THEN Crash(r1, got.exc)
                 ELSE IF k = "session" THEN [r1 EXCEPT !.k = "weekly"]
                 ELSE IF BothCached(r1.data["session"], r1.data["weekly"])
                      THEN Return(r1, r1.data["session"], r1.data["weekly"])
                      ELSE [r1 EXCEPT !.pc = "token"]]
    /\ UNCHANGED <<calc, now, cache, prev>>

\* Lines 178-180: the credential lookup.
GetToken(p) ==
    /\ inv[p].pc = "token"
    /\ \E outcome \in CredOutcomes :
         LET got == get_claude_token(outcome)
             r1 == [inv[p] EXCEPT !.credCalls = @ + 1, !.token = got.val]
         IN inv' = [inv EXCEPT ![p] =
                 IF got.exc # NoExc THEN Crash(r1, got.exc)
                 ELSE IF NotToken(got.val) THEN Return(r1, PyNone, PyNone)
                 ELSE [r1 EXCEPT !.pc = "fetch"]]
    /\ UNCHANGED <<calc, now, cache, prev>>

\* Lines 182-184: the request to the usage endpoint.
Fetch(p) ==
    /\ inv[p].pc = "fetch"
    /\ \E outcome \in FetchOutcomes, body \in Bodies :
         LET got == fetch_usage(outcome, body)
             r1 == [inv[p] EXCEPT !.fetchCalls = @ + 1, !.fetchOutcome = outcome,
                                  !.usage = got.val, !.fetchAt = now]
         IN /\ outcome # "ok" => body = UsageNone
            /\ inv' = [inv EXCEPT ![p] =
                 IF got.exc # NoExc THEN Crash(r1, got.exc)
                 ELSE IF NotUsage(got.val) THEN Return(r1, PyNone, PyNone)
                 ELSE [r1 EXCEPT !.pc = "extract", !.k = "session"]]
    /\ UNCHANGED <<calc, now, cache, prev>>

\* Lines 187-192 (session) and 195-200 (weekly): the sub-record's reading.
Extract(p) ==
    /\ inv[p].pc = "extract"
    /\ LET r == inv[p]
           k == r.k
           sub == UsageGet(r.usage, k)
       IN inv' = [inv EXCEPT ![p] =
            IF r.usage.kind = "nondict" THEN Crash(r, "AttributeError")
            ELSE IF Truthy(sub) /\ ToPct(sub).exc # NoExc
                 THEN Crash(r, ToPct(sub).exc)
            ELSE LET r1 == [r EXCEPT !.data[k] = Extracted(r.data[k], sub)]
                 IN IF Truthy(sub) THEN [r1 EXCEPT !.pc = "open"]
                    ELSE Advance(r1)]
    /\ UNCHANGED <<calc, now, cache, prev>>

\* save_cache, lines 160-161: mkdir and open(cache_file, "w"), which
\* truncates the file; an OSError is swallowed and nothing is written.
SaveOpen(p) ==
    /\ inv[p].pc = "open"
    /\ LET r == [inv[p] EXCEPT !.saves = @ + 1]
             e == SaveBody(r.fs, "open")
             failed == [r EXCEPT !.saveFailed = TRUE]
         IN IF e = NoExc
            THEN /\ cache' = [cache EXCEPT ![r.k] = Truncated(now)]
                 /\ inv' = [inv EXCEPT ![p] = [r EXCEPT !.pc = "dump"]]
            ELSE /\ cache' = cache
                 /\ inv' = [inv EXCEPT ![p] =
                        IF SaveEscapes(e) # NoExc THEN Crash(failed, SaveEscapes(e))
                        ELSE Advance(failed)]
    /\ UNCHANGED <<calc, now, prev>>

\* save_cache, line 162: json.dump and the close of the file, which writes
\* the buffered text in one piece; an OSError (disk full) is swallowed and
\* leaves the file as it is.
SaveDump(p) ==
    /\ inv[p].pc = "dump"
    /\ LET r == inv[p]
             e == SaveBody(r.fs, "dump")
             failed == [r EXCEPT !.saveFailed = TRUE]
         IN IF e = NoExc
            THEN /\ cache' = [cache EXCEPT ![r.k] =
                                Overwrite(cache[r.k], JsonDump(now, r.data[r.k]))]
                 /\ inv' = [inv EXCEPT ![p] = Advance(r)]
            ELSE /\ cache' = cache
                 /\ inv' = [inv EXCEPT ![p] =
                        IF SaveEscapes(e) # NoExc THEN Crash(failed, SaveEscapes(e))
                        ELSE Advance(failed)]
    /\ UNCHANGED <<calc, now, prev>>

\* Lines 255-277: the quota segments and the print; main returns.
SegmentsMutBlank(r) == <<"model", "version", "context", "session", "weekly">>
Segments(r) ==
    <<"model", "version", "context">>
      \o (IF r.data["session"] # PyNone THEN <<"session">> ELSE <<>>)
      \o (IF r.data["weekly"] # PyNone THEN <<"weekly">> ELSE <<>>)

Render(p) ==
    /\ inv[p].pc = "render"
    /\ LET r == inv[p]
       IN inv' = [inv EXCEPT ![p] =
            IF \E k \in Keys : r.data[k].kind = "nondict"
            THEN Crash(r, "AttributeError")
            ELSE [r EXCEPT !.pc = "done", !.exit = 0, !.stdout = Segments(r)]]
    /\ UNCHANGED <<calc, now, cache, prev>>

\* The process ends; the next invocation is a new process.
Exit(p) ==
    /\ inv[p].pc \in {"done", "crashed"}
    /\ inv' = [inv EXCEPT ![p] = IdleInv]
    /\ prev' = Summary(inv[p])
    /\ UNCHANGED <<calc, now, cache>>

Next ==
    \/ Tick
    \/ \E p \in Procs : Main(p)
    \/ \E p \in Procs : ReadCache(p)
    \/ \E p \in Procs : GetToken(p)
    \/ \E p \in Procs : Fetch(p)
    \/ \E p \in Procs : Extract(p)
    \/ \E p \in Procs : SaveOpen(p)
    \/ \E p \in Procs : SaveDump(p)
    \/ \E p \in Procs : Render(p)
    \/ \E p \in Procs : Exit(p)

Spec == Init /\ [][Next]_vars

(***************************************************************************)
(* Properties.                                                             *)
(***************************************************************************)
\* The file f holds a cache entry that is valid for key k at time t: it
\* exists, parses to a JSON value other than null, and is no older than the
\* key's TTL of 60 s (session) or 300 s (weekly).
ValidEntry(f, k, t) ==
    /\ f.exists
    /\ f.text = "json"
    /\ f.val # PyNone
    /\ t - f.mtime <= (IF k = "session" THEN 60 ELSE 300)

\* The invocation r has read both cache files and both entries were valid
\* and readable when read.
BothValidAtRead(r) ==
    /\ r.reads = Keys
    /\ r.fs # "noread"
    /\ \A k \in Keys : ValidEntry(r.seen[k], k, r.readAt[k])

\* The cache files are as the invocation r found them when it read them.
CacheUntouched(r) == \A k \in r.reads : cache[k] = r.seen[k]

\* The call the invocation made did not end it with an exception.
Returned(r) == r.pc # "crashed" \/ r.resolved

\* C1: when both cache entries are valid at read time, get_usage_data
\* returns exactly the two cached values, and the invocation makes no
\* credential lookup, no fetch and no cache write.
C1_DualCacheHit ==
    \A p \in Procs :
      LET r == inv[p]
      IN BothValidAtRead(r) =>
           /\ r.resolved
           /\ \A k \in Keys : r.data[k] = r.seen[k].val
           /\ r.credCalls = 0 /\ r.fetchCalls = 0 /\ r.saves = 0
           /\ CacheUntouched(r)

C1_Witness ==
    \E p \in Procs :
      /\ inv[p].pc = "done"
      /\ BothValidAtRead(inv[p])
      /\ inv[p].readAt["session"] - inv[p].seen["session"].mtime = 60
      /\ inv[p].stdout = <<"model", "version", "context", "session", "weekly">>

\* The response the invocation r fetched has a well-formed sub-record for
\* key k and none for the other key.
OnlySub(r, k) ==
    /\ r.fetchCalls = 1
    /\ r.usage.kind = "dict"
    /\ WellFormed(UsageGet(r.usage, k))
    /\ \A j \in Keys \ {k} : UsageGet(r.usage, j) = AbsentSub

\* C2 as stated: after a fetch whose response has only five_hour, the
\* session reading is present, the weekly reading is absent and the weekly
\* cache file is unchanged, whatever the cache held.
C2_AsStated ==
    \A p \in Procs :
      LET r == inv[p]
      IN r.resolved /\ OnlySub(r, "session") =>
           /\ r.data["session"].kind = "dict"
           /\ r.data["weekly"] = PyNone
           /\ cache["weekly"] = r.seen["weekly"]

\* C2 amended: after a fetch whose response has only one sub-record, that
\* key's reading is present, the other key's reading is what its cache read
\* returned (absent on a miss, the cached reading on a hit), and the other
\* key's cache file is unchanged.
C2_PartialData ==
    \A p \in Procs : \A k \in Keys :
      LET r == inv[p]
      IN r.resolved /\ OnlySub(r, k) =>
           /\ r.data[k].kind = "dict"
           /\ \A j \in Keys \ {k} :
                /\ r.data[j] = r.cached[j]
                /\ cache[j] = r.seen[j]

C2_Witness ==
    \E p \in Procs :
      /\ inv[p].pc = "done"
      /\ OnlySub(inv[p], "session")
      /\ inv[p].cached["session"] = PyNone
      /\ inv[p].cached["weekly"] # PyNone
      /\ inv[p].data["weekly"] = inv[p].cached["weekly"]
      /\ inv[p].stdout = <<"model", "version", "context", "session", "weekly">>

\* The reading get_usage_data builds from a well-formed sub-record.
ReadingOf(sub) == Reading(Trunc10(sub.u), sub.resets_at)

\* The invocation r is the second of two consecutive calls without external
\* change: the first fetched a plain response and saved it; r found the
\* cache readable and writable, read both files within SESSION_TTL seconds
\* of that fetch, got a token if it asked for one, and got the same
\* response if it fetched.
SecondCall(r) ==
    /\ prev.some
    /\ r.resolved
    /\ r.fs = "ok"
    /\ \A k \in Keys : r.readAt[k] - prev.fetchAt <= SESSION_TTL
    /\ r.credCalls = 1 => r.token = "tok"
    /\ r.fetchCalls = 1 =>
         /\ PlainUsage(r.usage)
         /\ GoodSubs(r.usage) = prev.subs
         /\ \A k \in prev.subs : ReadingOf(UsageGet(r.usage, k)) = prev.data[k]

\* C3 as stated: for any response of the first call, the second call
\* returns the same readings and the fetcher is called once in all.
C3_AsStated ==
    \A p \in Procs :
      SecondCall(inv[p]) => inv[p].data = prev.data /\ inv[p].fetchCalls = 0

\* C3 amended: when the response of the first call has both sub-records,
\* the second call returns the same readings and the fetcher is called once
\* in all.
C3_Idempotence ==
    \A p \in Procs :
      SecondCall(inv[p]) /\ prev.subs = Keys =>
        inv[p].data = prev.data /\ inv[p].fetchCalls = 0

C3_Witness ==
    \E p \in Procs :
      /\ inv[p].pc = "done"
      /\ SecondCall(inv[p])
      /\ prev.subs = Keys
      /\ inv[p].readAt["session"] - prev.fetchAt = SESSION_TTL
      /\ inv[p].data = prev.data
      /\ inv[p].data["session"].kind = "dict"

\* The entry in file f, read (readable) at time t for key k, is returned
\* exactly while its age is at most the key's TTL.
StalenessRule(f, k, t, got) ==
    LET T == IF k = "session" THEN 60 ELSE 300
    IN /\ t - f.mtime <= T => got = f.val
       /\ t - f.mtime > T => got = PyNone

\* get_cached_usage follows the staleness rule on every read of a parseable
\* entry.
ReadsFollowRule ==
    \A p \in Procs : \A k \in inv[p].reads :
      LET r == inv[p]
          f == r.seen[k]
      IN f.exists /\ f.text = "json" /\ r.fs # "noread" =>
           StalenessRule(f, k, r.readAt[k], r.cached[k])

\* The reading that get_usage_data returns for key k comes from the cache.
FromCache(r, k) ==
    /\ r.resolved
    /\ r.data[k].kind = "dict"
    /\ r.fetchCalls = 1 => ~Truthy(UsageGet(r.usage, k))

\* C4 as stated: the staleness rule, and at its return the resolver hands
\* out no cached reading older than its key's TTL.
C4_AsStated ==
    /\ ReadsFollowRule
    /\ \A p \in Procs : \A k \in Keys :
         /\ inv[p].pc = "render"
         /\ inv[p].fetchOutcome \in {"unset", "ok"}
         /\ FromCache(inv[p], k)
         =>
           now - inv[p].seen[k].mtime <= TTL(k)

\* C4 amended: the staleness rule, and every cached reading the resolver
\* returns was no older than its key's TTL when it was read.
C4_Staleness ==
    /\ ReadsFollowRule
    /\ \A p \in Procs : \A k \in Keys :
         FromCache(inv[p], k) =>
           inv[p].readAt[k] - inv[p].seen[k].mtime <= TTL(k)

C4_Witness ==
    \E p \in Procs :
      LET r == inv[p]
      IN /\ r.pc = "render"
         /\ r.fs = "ok"
         /\ r.readAt["weekly"] - r.seen["weekly"].mtime = 300
         /\ FromCache(r, "weekly")
         /\ r.seen["session"].text = "json" /\ r.seen["session"].val # PyNone
         /\ r.readAt["session"] - r.seen["session"].mtime = 300
         /\ r.cached["session"] = PyNone

\* C5: every percentage the resolver returns or writes to a cache file lies
\* in 0..100.
C5_Clamp ==
    /\ \A p \in Procs : \A k \in Keys :
         inv[p].resolved /\ inv[p].data[k].kind = "dict" =>
           inv[p].data[k].pct \in 0..100
    /\ \A k \in Keys :
         cache[k].exists /\ cache[k].text = "json" /\ cache[k].val.kind = "dict" =>
           cache[k].val.pct \in 0..100

\* C6: when a cache read missed and the credential lookup returns no token,
\* the resolver returns both readings absent, without a fetch and without a
\* cache write.
C6_CredentialUnavailable ==
    \A p \in Procs :
      LET r == inv[p]
      IN r.credCalls = 1 /\ r.token \in {"None", ""} /\ Returned(r) =>
           /\ r.resolved
           /\ \A k \in Keys : r.data[k] = PyNone
           /\ r.fetchCalls = 0 /\ r.saves = 0
           /\ CacheUntouched(r)

C6_Witness ==
    \E p \in Procs :
      /\ inv[p].pc = "done"
      /\ inv[p].credCalls = 1 /\ inv[p].token = "None"
      /\ inv[p].cached["weekly"] # PyNone
      /\ inv[p].data["weekly"] = PyNone
      /\ inv[p].stdout = <<"model", "version", "context">>

\* C7: when a token is present and the fetcher returns absent, the resolver
\* returns both readings absent, the fetcher was called once, and the
\* invocation goes on to print and exit with status 0.
C7_NetworkFailure ==
    \A p \in Procs :
      LET r == inv[p]
      IN /\ r.fetchCalls <= 1
         /\ r.fetchCalls = 1 /\ r.usage.kind = "none" /\ Returned(r) =>
              /\ r.token = "tok"
              /\ r.resolved
              /\ \A k \in Keys : r.data[k] = PyNone
              /\ r.pc \in {"render", "done"}
              /\ r.pc = "done" => r.exit = 0

C7_Witness ==
    \E p \in Procs :
      /\ inv[p].pc = "done"
      /\ inv[p].fetchCalls = 1 /\ inv[p].fetchOutcome = "timeout"
      /\ inv[p].cached["session"] # PyNone
      /\ inv[p].data["session"] = PyNone
      /\ inv[p].stdout = <<"model", "version", "context">>

\* C8: on every failure outcome of the request fetch_usage returns absent
\* and raises nothing.
C8_FetcherContract ==
    \A p \in Procs :
      LET r == inv[p]
      IN r.fetchCalls = 1 /\ r.fetchOutcome \in FetchFailures =>
           r.usage = UsageNone /\ Returned(r)

\* C9: no invocation ends with a status other than 0.
C9_ExitZero ==
    \A p \in Procs : inv[p].pc # "crashed" /\ inv[p].exit \in {-1, 0}

\* C10: on stdin that is no JSON the program prints nothing, exits with
\* status 0 and never reaches get_usage_data: no cache read or write, no
\* credential lookup, no fetch.
C10_MalformedInput ==
    \A p \in Procs :
      LET r == inv[p]
      IN r.pc # "idle" /\ r.stdin = "malformed" =>
           /\ r.pc = "done" /\ r.exit = 0 /\ r.stdout = <<>>
           /\ ~r.resolved /\ r.reads = {}
           /\ r.credCalls = 0 /\ r.fetchCalls = 0 /\ r.saves = 0

C10_Witness ==
    \E p \in Procs :
      /\ inv[p].pc = "done" /\ inv[p].stdin = "malformed"
      /\ inv[p].exit = 0 /\ inv[p].stdout = <<>>
      /\ \A k \in Keys : ValidEntry(cache[k], k, now)

\* The invocation r read for key k a file that exists but cannot be opened
\* (the directory's condition) or does not hold a JSON document.
Unusable(r, k) ==
    /\ k \in r.reads
    /\ r.seen[k].exists
    /\ r.fs = "noread" \/ r.seen[k].text # "json"

\* C11: a cache file that cannot be opened, read or parsed makes the cache
\* read return absent without ending the invocation, and once both reads
\* are done the invocation has gone on to the credential lookup.
C11_CorruptCache ==
    \A p \in Procs : \A k \in Keys :
      LET r == inv[p]
      IN Unusable(r, k) =>
           /\ r.cached[k] = PyNone
           /\ ~(r.pc = "crashed" /\ r.credCalls = 0)
           /\ r.reads = Keys /\ r.pc \notin {"read", "token", "crashed"} =>
                r.credCalls = 1

\* The reading lines 189-192 / 197-200 build from a truthy sub-record.
Built(sub) == Reading(ToPct(sub).val, sub.resets_at)

\* The invocation r follows one in which a save failed, and finds the cache
\* directory still unwritable.
StillUnwritable(r) == prev.wfail /\ r.fs \in {"nowrite", "full"}

\* C12: a failed save does not end the invocation and the resolver returns
\* the readings built from the response; while the cache stays unwritable,
\* every later invocation misses the cache again, fetches once it holds a
\* token, and returns the readings of the response it got.
C12_UnwritableCache ==
    \A p \in Procs :
      LET r == inv[p]
          fresh == \A k \in Keys :
                     r.resolved /\ r.usage.kind = "dict" /\ Truthy(UsageGet(r.usage, k))
                       => r.data[k] = Built(UsageGet(r.usage, k))
      IN /\ r.saveFailed =>
              /\ Caught(r.exc, {"OSError"}) = FALSE
              /\ PlainUsage(r.usage) => Returned(r)
              /\ fresh
         /\ StillUnwritable(r) =>
              /\ r.reads = Keys => \E k \in Keys : r.cached[k] = PyNone
              /\ r.credCalls = 1 /\ r.token = "tok" /\ r.pc # "fetch" => r.fetchCalls = 1
              /\ fresh

C12_Witness ==
    \E p \in Procs :
      LET r == inv[p]
      IN /\ StillUnwritable(r)
         /\ r.pc = "done"
         /\ r.fetchCalls = 1 /\ r.saves = 2 /\ r.saveFailed
         /\ \A k \in Keys : r.data[k] = Reading(99, "2026-01-01T00:00:00Z")
         /\ \A k \in Keys : ~cache[k].exists
         /\ r.stdout = <<"model", "version", "context", "session", "weekly">>

(***************************************************************************)
(* Two concurrent invocations on an empty cache.  Both find stdin and the  *)
(* cache directory in order, both miss, get a token and a response with a  *)
(* session sub-record; the steps of the two interleave freely, and an      *)
(* invocation that has ended may be followed by a later one.               *)
(***************************************************************************)
Racers == {"a", "b"}

\* Responses whose session readings differ in the length of their text:
\* {"pct": 99, ...} and {"pct": 0, ...} (utilization missing).
RaceBodies ==
    {UsageDict(Rec(999, "2026-01-01T00:00:00Z"), Rec(999, "2026-01-01T00:00:00Z")),
     UsageDict(Rec(999, "2026-01-01T00:00:00Z"), AbsentSub),
     UsageDict(Sub("rec", "missing", 0, "2026-01-01T00:00:00Z"), AbsentSub)}

InitRace ==
    /\ now = 0
    /\ cache = NoFiles
    /\ inv = [p \in Racers |-> IdleInv]
    /\ prev = NoPrev
    /\ calc = NoCalc

MainRace(p) == Main(p) /\ inv'[p].stdin = "ok" /\ inv'[p].fs = "ok"
GetTokenRace(p) == GetToken(p) /\ inv'[p].token = "tok"
FetchRace(p) ==
    Fetch(p) /\ inv'[p].fetchOutcome = "ok" /\ inv'[p].usage \in RaceBodies

NextRace ==
    \/ \E p \in Racers : MainRace(p)
    \/ \E p \in Racers : ReadCache(p)
    \/ \E p \in Racers : GetTokenRace(p)
    \/ \E p \in Racers : FetchRace(p)
    \/ \E p \in Racers : Extract(p)
    \/ \E p \in Racers : SaveOpen(p)
    \/ \E p \in Racers : SaveDump(p)
    \/ \E p \in Racers : Render(p)
    \/ \E p \in Racers : Exit(p)

SpecRace == InitRace /\ [][NextRace]_vars

\* The invocation r has fetched and saved a reading for key k.
Wrote(r, k) ==
    /\ r.fetchCalls = 1
    /\ r.usage.kind = "dict" /\ Truthy(UsageGet(r.usage, k))
    /\ r.pc \in {"render", "done"}

\* C13: when two concurrent invocations that both fetched have finished,
\* each cache file one of them wrote holds exactly the reading one of them
\* wrote to it; and no invocation ends with an exception or is handed by a
\* cache read anything but a complete reading some invocation wrote.
C13_LastWriterWins ==
    /\ (\A p \in DOMAIN inv : inv[p].pc = "done" /\ inv[p].fetchCalls = 1) =>
         \A k \in Keys :
           (\E p \in DOMAIN inv : Wrote(inv[p], k)) =>
             \E p \in DOMAIN inv :
               /\ Wrote(inv[p], k)
               /\ cache[k] = JsonDump(cache[k].mtime, inv[p].data[k])
    /\ \A p \in DOMAIN inv :
         /\ inv[p].pc # "crashed"
         /\ \A k \in inv[p].reads :
              inv[p].cached[k] # PyNone =>
                /\ inv[p].seen[k].text = "json"
                /\ inv[p].cached[k] \in {Built(UsageGet(b, k)) : b \in RaceBodies}

\* The segments of the line the invocation r printed.
Shown(r) == {r.stdout[i] : i \in 1..Len(r.stdout)}

\* C14: every line printed starts with the model, version and context
\* segments in that order, has a session segment exactly when the resolver
\* returned a session reading and a weekly segment exactly when it returned
\* a weekly reading, session before weekly; with no cache file and no
\* token the line has the first three segments only.
C14_SegmentOmission ==
    \A p \in Procs :
      LET r == inv[p]
          n == Len(r.stdout)
      IN r.pc = "done" /\ r.resolved =>
           /\ n >= 3 /\ SubSeq(r.stdout, 1, 3) = <<"model", "version", "context">>
           /\ "session" \in Shown(r) <=> r.data["session"] # PyNone
           /\ "weekly" \in Shown(r) <=> r.data["weekly"] # PyNone
           /\ \A i \in 4..n :
                /\ r.stdout[i] \in {"session", "weekly"}
                /\ r.stdout[i] = "session" => i = 4
                /\ i = 5 => r.stdout[4] = "session" /\ r.stdout[5] = "weekly"
           /\ n <= 5
           /\ (\A k \in Keys : ~r.seen[k].exists) /\ r.token \in {"None", ""} =>
                r.stdout = <<"model", "version", "context">>

C14_Witness ==
    \E p \in Procs :
      LET r == inv[p]
      IN /\ r.pc = "done"
         /\ r.fetchCalls = 1
         /\ r.data["session"] = PyNone
         /\ r.data["weekly"] = Reading(99, "2026-01-01T00:00:00Z")
         /\ r.stdout = <<"model", "version", "context", "weekly">>

(***************************************************************************)
(* The context percentage of main, lines 231-250, on its own.              *)
(* current_usage is null, an empty object or an object whose three token   *)
(* counts are given (a count left out reads as 0); context_window_size is  *)
(* given or left out.                                                      *)
(***************************************************************************)
DEFAULT_SIZE == 200000
MaxTokens == 5
MaxSize == 16

TokenCounts == 0..MaxTokens
Sizes == 0..MaxSize

CtxUsage(kind, i, c, r) == [kind |-> kind, input |-> i, creation |-> c, read |-> r]
CtxUsages ==
    {CtxUsage("null", 0, 0, 0), CtxUsage("empty", 0, 0, 0)}
      \cup {CtxUsage("dict", i, c, r) : i \in TokenCounts, c \in TokenCounts,
                                        r \in TokenCounts}
      \cup {CtxUsage("dict", 100000, 0, 0), CtxUsage("dict", 50000, 20000, 30000),
            CtxUsage("dict", 155000, 0, 0), CtxUsage("dict", 154999, 0, 0)}
CtxSize(given, n) == [given |-> given, n |-> n]
CtxSizes == {CtxSize(TRUE, n) : n \in Sizes \cup {DEFAULT_SIZE}} \cup {CtxSize(FALSE, 0)}

\* Lines 234-241: "if usage:" and the sum of the three counts.
Current(usage) ==
    IF usage.kind = "dict" THEN usage.input + usage.creation + usage.read ELSE 0
\* Line 232: .get("context_window_size", 200000).
SizeOf(size) == IF size.given THEN size.n ELSE DEFAULT_SIZE
\* Line 243.
autocompact_threshold(size) == (size * 775) \div 1000
\* Lines 244-248.
Min(a, b) == IF a < b THEN a ELSE b
ContextPctMutNoMin(current, threshold) ==
    IF threshold > 0 THEN (current * 100) \div threshold ELSE 0
context_pct(current, threshold) ==
    IF threshold > 0 THEN Min((current * 100) \div threshold, 100) ELSE 0

InitContext ==
    /\ now = 0
    /\ cache = NoFiles
    /\ inv = [p \in Procs |-> IdleInv]
    /\ prev = NoPrev
    /\ calc \in {[fn |-> "context_pct", pc |-> "in", usage |-> u, size |-> s,
                  threshold |-> 0, pct |-> 0] : u \in CtxUsages, s \in CtxSizes}

\* main computes the threshold and the percentage of its input.
ContextPct ==
    /\ calc.fn = "context_pct" /\ calc.pc = "in"
    /\ LET t == autocompact_threshold(SizeOf(calc.size))
       IN calc' = [calc EXCEPT !.pc = "out", !.threshold = t,
                               !.pct = context_pct(Current(calc.usage), t)]
    /\ UNCHANGED <<now, cache, inv, prev>>

NextContext == ContextPct

SpecContext == InitContext /\ [][NextContext]_vars

\* The number of tokens in use and the window size that the input states.
UsageTokens(c) ==
    IF c.usage.kind = "null" THEN 0
    ELSE c.usage.input + c.usage.creation + c.usage.read
WindowSize(c) == IF c.size.given THEN c.size.n ELSE 200000

\* C15: with threshold = window size * 775 div 1000, the context
\* percentage is min(tokens * 100 div threshold, 100) when the threshold is
\* positive and 0 otherwise, lies in 0..100, and a null current_usage
\* counts as 0 tokens; a window of 200000 with 100000 tokens in use gives
\* threshold 155000 and 64.
C15_ContextPercentage ==
    calc.fn = "context_pct" /\ calc.pc = "out" =>
      LET cur == UsageTokens(calc)
          thr == (WindowSize(calc) * 775) \div 1000
      IN /\ calc.threshold = thr
         /\ thr > 0 =>
              /\ (cur * 100) \div thr <= 100 => calc.pct = (cur * 100) \div thr
              /\ (cur * 100) \div thr > 100 => calc.pct = 100
         /\ thr <= 0 => calc.pct = 0
         /\ calc.pct \in 0..100
         /\ WindowSize(calc) = 200000 /\ cur = 100000 =>
              calc.threshold = 155000 /\ calc.pct = 64

C15_Witness ==
    /\ calc.fn = "context_pct" /\ calc.pc = "out"
    /\ calc.size = CtxSize(TRUE, 200000)
    /\ calc.usage = CtxUsage("dict", 50000, 20000, 30000)
    /\ calc.threshold = 155000 /\ calc.pct = 64

(***************************************************************************)
(* format_time_until_reset, lines 61-78, on its own.  The argument is      *)
(* None, the empty string, a string that is no ISO-8601 timestamp, a       *)
(* timestamp d seconds after the current time (before it when d < 0), or   *)
(* a truthy value that is no string.  Texts are sequences of characters.   *)
(***************************************************************************)
MaxMinutes == 130

\* The distance in seconds from now to the reset instant: whole minutes
\* from two minutes back, and one second and 59 seconds into each.
Deltas == {m * 60 + s : m \in (-2)..MaxMinutes, s \in {0, 1, 59}}

ResetArg(kind, d) == [kind |-> kind, d |-> d]
ResetArgs ==
    {ResetArg("none", 0), ResetArg("empty", 0), ResetArg("badstr", 0),
     ResetArg("number", 0)}
      \cup {ResetArg("iso", d) : d \in Deltas}

NoText == [exc |-> NoExc, some |-> FALSE, text |-> <<>>]
Text(t) == [exc |-> NoExc, some |-> TRUE, text |-> t]

\* str(n) for n >= 0.
DigitChars == <<"0", "1", "2", "3", "4", "5", "6", "7", "8", "9">>
RECURSIVE Str(_)
Str(n) == IF n < 10 THEN <<DigitChars[n + 1]>>
          ELSE Str(n \div 10) \o <<DigitChars[(n % 10) + 1]>>
\* The format specification 02d.
Pad2MutNone(n) == Str(n)
Pad2(n) == IF Len(Str(n)) < 2 THEN <<"0">> \o Str(n) ELSE Str(n)

\* Lines 66-76: what the body of the try raises or returns.
ResetBody(arg) ==
    CASE arg.kind = "number" -> [NoText EXCEPT !.exc = "AttributeError"]
      [] arg.kind = "badstr" -> [NoText EXCEPT !.exc = "ValueError"]
      [] OTHER ->
           LET total_minutes == arg.d \div 60
               hours == total_minutes \div 60
               minutes == total_minutes % 60
           IN IF arg.d <= 0 THEN NoText
              ELSE IF hours > 0
                   THEN Text(Str(hours) \o <<"h">> \o Pad2(minutes) \o <<"m">>)
                   ELSE Text(Str(minutes) \o <<"m">>)

format_time_until_reset(arg) ==
    IF arg.kind \in {"none", "empty"} THEN NoText
    ELSE IF Caught(ResetBody(arg).exc, {"ValueError", "TypeError"}) THEN NoText
    ELSE ResetBody(arg)

InitReset ==
    /\ now = 0
    /\ cache = NoFiles
    /\ inv = [p \in Procs |-> IdleInv]
    /\ prev = NoPrev
    /\ calc \in {[fn |-> "format_time_until_reset", pc |-> "in", arg |-> a,
                  out |-> NoText] : a \in ResetArgs}

\* One call of format_time_until_reset.
FormatReset ==
    /\ calc.fn = "format_time_until_reset" /\ calc.pc = "in"
    /\ calc' = [calc EXCEPT !.pc = "out", !.out = format_time_until_reset(calc.arg)]
    /\ UNCHANGED <<now, cache, inv, prev>>

NextReset == FormatReset

SpecReset == InitReset /\ [][NextReset]_vars

\* The decimal text of x in at least two digits.
TwoDigits(x) == IF x < 10 THEN <<"0", DigitChars[x + 1]>> ELSE Str(x)

\* C16: for a None or string argument, format_time_until_reset returns
\* absent when the reset instant is not after now and when the argument is
\* absent or does not parse; otherwise, with m the whole minutes until the
\* instant, "{m div 60}h{m mod 60 in two digits}m" when m >= 60 and "{m}m"
\* when m < 60; 125 minutes ahead gives "2h05m", one minute back absent.
C16_ResetCountdown ==
    calc.fn = "format_time_until_reset" /\ calc.pc = "out"
    /\ calc.arg.kind # "number" =>
      LET a == calc.arg
          m == a.d \div 60
      IN /\ calc.out.exc = NoExc
         /\ a.kind \in {"none", "empty", "badstr"} => ~calc.out.some
         /\ a.kind = "iso" /\ a.d <= 0 => ~calc.out.some
         /\ a.kind = "iso" /\ a.d > 0 /\ m >= 60 =>
              /\ calc.out.some
              /\ calc.out.text = Str(m \div 60) \o <<"h">> \o TwoDigits(m % 60) \o <<"m">>
         /\ a.kind = "iso" /\ a.d > 0 /\ m < 60 =>
              /\ calc.out.some
              /\ calc.out.text = Str(m) \o <<"m">>
         /\ a = ResetArg("iso", 125 * 60) => calc.out.text = <<"2", "h", "0", "5", "m">>
         /\ a = ResetArg("iso", -60) => ~calc.out.some

C16_Witness ==
    /\ calc.fn = "format_time_until_reset" /\ calc.pc = "out"
    /\ calc.arg = ResetArg("iso", 125 * 60 + 59)
    /\ calc.out = Text(<<"2", "h", "0", "5", "m">>)

\* C17: in every invocation the credential lookup is made at most once and
\* only after both cache reads, one of which missed; the fetch is made at
\* most once and only after the lookup returned a token; a cache file is
\* written at most once per key and only after the fetch returned data.
C17_CallOrder ==
    \A p \in Procs :
      LET r == inv[p]
      IN /\ r.credCalls <= 1 /\ r.fetchCalls <= 1 /\ r.saves <= 2
         /\ r.credCalls = 1 =>
              /\ r.reads = Keys
              /\ \E k \in Keys : r.cached[k] = PyNone
         /\ r.fetchCalls = 1 => r.credCalls = 1 /\ r.token = "tok"
         /\ r.saves >= 1 =>
              /\ r.fetchCalls = 1
              /\ r.usage.kind \notin {"none", "falsy"}
         /\ r.pc \in {"token", "fetch", "extract", "open", "dump"} => r.reads = Keys

C17_Witness ==
    \E p \in Procs :
      LET r == inv[p]
      IN /\ r.pc = "done"
         /\ r.reads = Keys /\ r.credCalls = 1 /\ r.fetchCalls = 1 /\ r.saves = 2
         /\ r.cached["session"] = PyNone
         /\ r.cached["weekly"] # PyNone
         /\ r.stdout = <<"model", "version", "context", "session", "weekly">>

\* The invocation r is at the save of key k after a fetch that succeeded
\* with a sub-record for k in the response.
SavingFetched(r, k) ==
    /\ r.fetchCalls = 1 /\ r.fetchOutcome = "ok"
    /\ r.usage.kind = "dict" /\ UsageGet(r.usage, k).kind = "rec"
    /\ r.pc \in {"open", "dump"} /\ r.k = k

\* C18: a step changes the cache file of key k (content or mtime) only as
\* the save of an invocation whose fetch succeeded with the sub-record for
\* k present; every other step leaves it as it is, and no step removes an
\* existing file.
C18_CacheFrame ==
    [][\A k \in Keys :
         /\ cache[k].exists => cache'[k].exists
         /\ cache'[k] # cache[k] => \E p \in Procs : SavingFetched(inv[p], k)]_vars

C18_Witness ==
    \E p \in Procs :
      LET r == inv[p]
      IN /\ r.pc = "done"
         /\ OnlySub(r, "session")
         /\ r.seen["session"] = JsonFile(0, Reading(42, "2026-01-01T00:00:00Z"))
         /\ cache["session"] = JsonFile(now, Reading(99, "2026-01-01T00:00:00Z"))
         /\ now > SESSION_TTL
         /\ r.seen["weekly"].exists
         /\ cache["weekly"] = r.seen["weekly"]

\* n is the number u / 10 truncated toward zero.
IsTruncation(n, u) ==
    /\ u >= 0 => n * 10 <= u /\ u < n * 10 + 10
    /\ u < 0 => n * 10 >= u /\ u > n * 10 - 10

\* C19: for each well-formed sub-record of a fetched response the reading
\* returned has the utilization truncated toward zero as percentage and
\* the sub-record's resets_at unchanged; when the save succeeded the cache
\* file holds that same reading; and a read of that file within the key's
\* TTL by the next invocation returns that same reading.
C19_ReadingConstruction ==
    \A p \in Procs : \A k \in Keys :
      LET r == inv[p]
          sub == UsageGet(r.usage, k)
      IN /\ r.resolved /\ r.fetchCalls = 1 /\ r.usage.kind = "dict" /\ WellFormed(sub) =>
              /\ r.data[k].kind = "dict"
              /\ IsTruncation(r.data[k].pct, sub.u)
              /\ r.data[k].resets_at = sub.resets_at
              /\ r.fs = "ok" =>
                   /\ cache[k].exists /\ cache[k].text = "json"
                   /\ cache[k].val = r.data[k]
         /\ /\ prev.some /\ k \in prev.subs
            /\ k \in r.reads /\ r.fs # "noread"
            /\ r.readAt[k] - prev.fetchAt <= TTL(k)
            => r.cached[k] = prev.data[k]

C19_Witness ==
    \E p \in Procs :
      LET r == inv[p]
      IN /\ prev.some /\ prev.subs = Keys
         /\ r.pc = "token"
         /\ r.readAt["weekly"] - prev.fetchAt = WEEKLY_TTL
         /\ r.cached["weekly"] = Reading(99, "2026-01-01T00:00:00Z")
         /\ r.cached["weekly"] = prev.data["weekly"]
         /\ r.cached["session"] = PyNone

\* The response the invocation r fetched has both sub-records, well-formed.
BothSubs(r) ==
    /\ r.fetchCalls = 1 /\ r.usage.kind = "dict"
    /\ \A k \in Keys : WellFormed(UsageGet(r.usage, k))

\* C20: after a fetch whose response has both sub-records, whichever key
\* missed, the resolver returns both readings from the response, has saved
\* both keys, and (the cache being writable) both cache files hold the
\* readings of that response with the time of this save as mtime.
C20_RefreshBoth ==
    \A p \in Procs :
      LET r == inv[p]
      IN r.resolved /\ BothSubs(r) =>
           /\ \A k \in Keys : r.data[k] = ReadingOf(UsageGet(r.usage, k))
           /\ r.saves = 2
           /\ r.fs = "ok" =>
                \A k \in Keys :
                  cache[k] = JsonFile(r.fetchAt, ReadingOf(UsageGet(r.usage, k)))

C20_Witness ==
    \E p \in Procs :
      LET r == inv[p]
      IN /\ r.pc = "done" /\ r.fs = "ok"
         /\ BothSubs(r)
         /\ r.cached["session"] = PyNone
         /\ r.cached["weekly"] = Reading(42, "2026-01-01T00:00:00Z")
         /\ r.data["weekly"] = Reading(99, "2026-01-01T00:00:00Z")
         /\ r.seen["weekly"].mtime = 0
         /\ cache["weekly"] = JsonFile(now, Reading(99, "2026-01-01T00:00:00Z"))
         /\ now > SESSION_TTL
====
